---- MODULE Spec2Model ----
(***************************************************************************)
(* Model of react-pubsub-component: the per-publisher trigger registry of *)
(* PSComponent, the PubSubProxy placeholder, and the two named registries *)
(* (PSComponent.ps and GlobalPubSub) that route a name to a placeholder   *)
(* or to a registered publisher handle.                                   *)
(*                                                                        *)
(* An operation of the program is a function from heap to heap; a heap is *)
(* the record of all object fields.  A thrown exception is the heap field *)
(* err, which stops the rest of the operation that raised it.             *)
(***************************************************************************)
EXTENDS Integers, Sequences, FiniteSets, TLC

\* ------------------------------------------------------------------ bounds
NComp == 3          \* components: 1 is the owner of the scoped registry
MaxWaiters == 2     \* promises handed out by the async getters
MaxOps == 5         \* operations the environment performs in one run

Comps == 1..NComp
Owner == CHOOSE c \in Comps : \A d \in Comps : c <= d
Global == "global"                  \* the GlobalPubSub() provider
Ps == "ps"                          \* this.ps of the owner
Regs == {Global, Ps}
Names == {"child"}                  \* registry property names
Msgs == {"m", "n"}                  \* trigger keys
Args == {1, 2}                      \* argument lists of a trigger
Callbacks == {"s", "t"}             \* subscribed functions, by identity
Awaiting == "t"                     \* the callback that awaits the key's next occurrence
Logging == "u"                      \* the callback childUpdated.bind(this, "sub")
Proxies == Regs \X Names            \* the PubSubProxy a slot may have made

NoError == "none"
AlreadyFinalized == "Already finalized."
IdIsString == "ID cannot be a string."
IdNotString == "ID must be a string."
NotAFunction == "TypeError: finalizeTriggers is not a function"
SetOnUndefined == "TypeError: cannot set properties of undefined"

VARIABLES
    status,         \* component -> "none" | "ok" | "threw" (constructor outcome)
    finalized,      \* PSComponent.finalized
    promises,       \* PSComponent.promises: key -> set of resolvers
    subscriptions,  \* PSComponent.subscriptions: key -> callbacks, insertion order
    ppromises,      \* PubSubProxy.promises, per proxy
    psubscriptions, \* PubSubProxy.subscriptions, per proxy
    made,           \* the proxies that have been created
    slot,           \* registry target object: name -> occupant
    waiter,         \* promise handed to a consumer: state, value, resolve calls
    microtasks,     \* pending continuations of the relays' awaits
    forwarded,      \* the proxies whose finalize has returned
    err,            \* what the last operation threw (or rejected with)
    invoked,        \* the callbacks the last operation called, with their args
    op,             \* the last operation: <<name, receiver, argument, argument>>
    nops,           \* operations performed so far
    watchdog,       \* the consumer's await loop: where it is, and what it awaits
    updated         \* the calls of childUpdated(source), counted per source

vars == <<status, finalized, promises, subscriptions, ppromises, psubscriptions,
          made, slot, waiter, microtasks, forwarded, err, invoked, op, nops,
          watchdog, updated>>

\* ------------------------------------------------------- Map and Set of JS
EmptyMap == [k \in {} |-> <<>>]
Has(map, key) == key \in DOMAIN map
MapSet(map, key, v) == [k \in DOMAIN map \cup {key} |-> IF k = key THEN v ELSE map[k]]
MapDelete(map, key) == [k \in DOMAIN map \ {key} |-> map[k]]

Range(seq) == {seq[i] : i \in 1..Len(seq)}
\* Set.prototype.add on an insertion-ordered set
SeqAdd(seq, x) == IF x \in Range(seq) THEN seq ELSE Append(seq, x)
\* Set.prototype.delete
SeqDelete(seq, x) == SelectSeq(seq, LAMBDA y : y # x)

\* a slot's occupant
Empty == [t |-> "empty", c |-> 0, k |-> "-"]
Proxy == [t |-> "proxy", c |-> 0, k |-> "-"]
Handle(c, k) == [t |-> "handle", c |-> c, k |-> k]
Kinds == {"object", "self"}     \* this.pubsubObject, or the component itself

\* ------------------------------------------------------------------- heap
Heap ==
    [status |-> status, finalized |-> finalized, promises |-> promises,
     subscriptions |-> subscriptions, ppromises |-> ppromises,
     psubscriptions |-> psubscriptions, made |-> made, slot |-> slot,
     waiter |-> waiter, microtasks |-> microtasks, forwarded |-> forwarded,
     watchdog |-> watchdog, updated |-> updated,
     err |-> NoError,
     invoked |-> <<>>]

Commit(H) ==
    /\ status' = H.status
    /\ finalized' = H.finalized
    /\ promises' = H.promises
    /\ subscriptions' = H.subscriptions
    /\ ppromises' = H.ppromises
    /\ psubscriptions' = H.psubscriptions
    /\ made' = H.made
    /\ slot' = H.slot
    /\ waiter' = H.waiter
    /\ microtasks' = H.microtasks
    /\ forwarded' = H.forwarded
    /\ err' = H.err
    /\ invoked' = H.invoked
    /\ watchdog' = H.watchdog
    /\ updated' = H.updated

Throw(H, e) == [H EXCEPT !.err = e]
Threw(H) == H.err # NoError

\* ---------------------------------------------------------------- promises
\* A resolver held in a promises set: it settles the consumer's promise w
\* after `hops` awaits of relays (0: it is the promise's own resolve).
Resolver(w, hops) == [w |-> w, hops |-> hops]

\* resolve(value) of the consumer's promise: only the first call settles it,
\* and it queues the continuation of the loop that awaits the promise
Settle(H, w, value) ==
    LET H1 == [H EXCEPT !.waiter[w] =
                  [st |-> "resolved",
                   val |-> IF @.st = "pending" THEN value ELSE @.val,
                   calls |-> @.calls + 1]]
    IN IF H.waiter[w].st = "pending" /\ H.watchdog.pc = "awaiting" /\ H.watchdog.w = w
       THEN [H1 EXCEPT !.microtasks = Append(@, [w |-> w, hops |-> 0, val |-> value])]
       ELSE H1

\* resolve(args) of one entry of a promises set
Resolve(H, r, value) ==
    IF r.hops = 0
    THEN Settle(H, r.w, value)
    ELSE [H EXCEPT !.microtasks = Append(@, [w |-> r.w, hops |-> r.hops, val |-> value])]

\* forEach((resolve) => resolve(value)) over a promises set, in insertion order
RECURSIVE ResolveAll(_, _, _)
ResolveAll(H, set, value) ==
    IF set = <<>> THEN H
    ELSE ResolveAll(Resolve(H, Head(set), value), Tail(set), value)

\* ------------------------------------------------------------- PSComponent
\* getTriggerSet without the guard on this.finalized
getTriggerSet_Unguarded(H, c, which, key) ==
    IF Has(H[which][c], key) THEN H
    ELSE [H EXCEPT ![which][c] = MapSet(@, key, <<>>)]

\* getTriggerSet(map, key) of component c, map being its field `which`:
\* throws once the component is finalized, else creates the key's set if absent
getTriggerSet(H, c, which, key) ==
    IF H.finalized[c] THEN Throw(H, AlreadyFinalized)
    ELSE IF Has(H[which][c], key) THEN H
    ELSE [H EXCEPT ![which][c] = MapSet(@, key, <<>>)]

\* triggerPromise(key), r being the resolve of the promise it makes; a throw
\* inside the executor rejects that promise: err is then the rejection.
triggerPromise(H, c, key, r) ==
    LET H1 == getTriggerSet(H, c, "promises", key)
    IN IF Threw(H1) THEN H1
       ELSE [H1 EXCEPT !.promises[c][key] = Append(@, r)]

\* triggerSubscribe that registers the callback once more each time
triggerSubscribe_Again(H, c, key, callback) ==
    LET H1 == getTriggerSet(H, c, "subscriptions", key)
    IN IF Threw(H1) THEN H1
       ELSE [H1 EXCEPT !.subscriptions[c][key] = Append(@, callback)]

triggerSubscribe(H, c, key, callback) ==
    LET H1 == getTriggerSet(H, c, "subscriptions", key)
    IN IF Threw(H1) THEN H1
       ELSE [H1 EXCEPT !.subscriptions[c][key] = SeqAdd(@, callback)]

\* triggerUnsubscribe that deletes the key's set when the callback is not in it
triggerUnsubscribe_Absent(H, c, key, callback) ==
    LET H1 == getTriggerSet(H, c, "subscriptions", key)
    IN IF Threw(H1) THEN H1
       ELSE LET set == SeqDelete(H1.subscriptions[c][key], callback)
            IN [H1 EXCEPT !.subscriptions[c] =
                   IF Len(set) = 0 \/ set = H1.subscriptions[c][key]
                   THEN MapDelete(@, key) ELSE MapSet(@, key, set)]

triggerUnsubscribe(H, c, key, callback) ==
    LET H1 == getTriggerSet(H, c, "subscriptions", key)
    IN IF Threw(H1) THEN H1
       ELSE LET set == SeqDelete(H1.subscriptions[c][key], callback)
            IN [H1 EXCEPT !.subscriptions[c] =
                   IF Len(set) = 0 THEN MapDelete(@, key) ELSE MapSet(@, key, set)]

\* the body of the callback Awaiting, called by component c for key:
\* handle.async.<key> on the handle that called it.  The promise it gets is
\* the first one not handed out yet; a throw of the getter rejects that promise
\* and does not leave the callback.
Await(H, c, key) ==
    LET free == {w \in 1..MaxWaiters : H.waiter[w].st = "none"}
    IN IF free = {} THEN H
       ELSE LET w == CHOOSE v \in free : \A u \in free : v <= u
                H1 == triggerPromise(H, c, key, Resolver(w, 0))
            IN IF Threw(H1) THEN [H EXCEPT !.waiter[w].st = "rejected"]
               ELSE [H1 EXCEPT !.waiter[w].st = "pending"]

\* childUpdated(source): console.log("Child updated!", source)
childUpdated(H, source) == [H EXCEPT !.updated[source] = @ + 1]

\* the body of a callback called by component c for key
Body(H, c, key, callback) ==
    IF callback = Awaiting THEN Await(H, c, key)
    ELSE IF callback = Logging THEN childUpdated(H, "sub")
    ELSE H

\* the calls made from the newest callback of the set to the oldest
RECURSIVE Invoke_Reversed(_, _, _, _, _)
Invoke_Reversed(H, c, key, set, args) ==
    IF set = <<>> THEN H
    ELSE LET callback == set[Len(set)]
             H1 == [H EXCEPT !.invoked = Append(@, [cb |-> callback, args |-> args])]
             H2 == Body(H1, c, key, callback)
         IN Invoke_Reversed(H2, c, key, SubSeq(set, 1, Len(set) - 1), args)

\* callback(...args) for every callback of the set, in insertion order; c and
\* key are the component and the trigger key the callbacks are called for
RECURSIVE Invoke(_, _, _, _, _)
Invoke(H, c, key, set, args) ==
    IF set = <<>> THEN H
    ELSE LET callback == Head(set)
             H1 == [H EXCEPT !.invoked = Append(@, [cb |-> callback, args |-> args])]
             H2 == Body(H1, c, key, callback)
         IN Invoke(H2, c, key, Tail(set), args)

\* trigger that leaves the resolved promises in the map
trigger_KeepPromises(H, c, key, args) ==
    LET H1 == getTriggerSet(H, c, "promises", key)
    IN IF Threw(H1) THEN H1
       ELSE LET H2 == ResolveAll(H1, H1.promises[c][key], args)
                H4 == getTriggerSet(H2, c, "subscriptions", key)
            IN Invoke(H4, c, key, H4.subscriptions[c][key], args)

\* trigger that forgets the callbacks it has called, as it does the promises
trigger_OneShot(H, c, key, args) ==
    LET H1 == getTriggerSet(H, c, "promises", key)
    IN IF Threw(H1) THEN H1
       ELSE LET H2 == ResolveAll(H1, H1.promises[c][key], args)
                H3 == [H2 EXCEPT !.promises[c] = MapDelete(@, key)]
                H4 == getTriggerSet(H3, c, "subscriptions", key)
                H5 == Invoke(H4, c, key, H4.subscriptions[c][key], args)
            IN [H5 EXCEPT !.subscriptions[c] = MapDelete(@, key)]

\* trigger that resolves only the oldest pending promise of the key
trigger_ResolveFirst(H, c, key, args) ==
    LET H1 == getTriggerSet(H, c, "promises", key)
    IN IF Threw(H1) THEN H1
       ELSE LET set == H1.promises[c][key]
                H2 == ResolveAll(H1, IF set = <<>> THEN set ELSE <<Head(set)>>, args)
                H3 == [H2 EXCEPT !.promises[c] = MapDelete(@, key)]
                H4 == getTriggerSet(H3, c, "subscriptions", key)
            IN Invoke(H4, c, key, H4.subscriptions[c][key], args)

\* trigger that executes the callbacks before it resolves the promises
trigger_CallbacksFirst(H, c, key, args) ==
    LET H1 == getTriggerSet(H, c, "subscriptions", key)
    IN IF Threw(H1) THEN H1
       ELSE LET H2 == Invoke(H1, c, key, H1.subscriptions[c][key], args)
                H3 == getTriggerSet(H2, c, "promises", key)
                H4 == ResolveAll(H3, H3.promises[c][key], args)
            IN [H4 EXCEPT !.promises[c] = MapDelete(@, key)]

\* trigger that clears the whole promises map instead of deleting the key
trigger_ClearAll(H, c, key, args) ==
    LET H1 == getTriggerSet(H, c, "promises", key)
    IN IF Threw(H1) THEN H1
       ELSE LET H2 == ResolveAll(H1, H1.promises[c][key], args)
                H3 == [H2 EXCEPT !.promises[c] = EmptyMap]
                H4 == getTriggerSet(H3, c, "subscriptions", key)
            IN Invoke(H4, c, key, H4.subscriptions[c][key], args)

\* trigger that calls the callbacks of every key, the fired key's first
trigger_EveryKey(H, c, key, args) ==
    LET H1 == getTriggerSet(H, c, "promises", key)
    IN IF Threw(H1) THEN H1
       ELSE LET H2 == ResolveAll(H1, H1.promises[c][key], args)
                H3 == [H2 EXCEPT !.promises[c] = MapDelete(@, key)]
                H4 == getTriggerSet(H3, c, "subscriptions", key)
                other == CHOOSE k \in Msgs : k # key
                set == H4.subscriptions[c][key]
                       \o (IF Has(H4.subscriptions[c], other)
                            THEN H4.subscriptions[c][other] ELSE <<>>)
            IN Invoke(H4, c, key, set, args)

trigger(H, c, key, args) ==
    LET H1 == getTriggerSet(H, c, "promises", key)
    IN IF Threw(H1) THEN H1
       ELSE LET H2 == ResolveAll(H1, H1.promises[c][key], args)
                H3 == [H2 EXCEPT !.promises[c] = MapDelete(@, key)]
                H4 == getTriggerSet(H3, c, "subscriptions", key)
            IN Invoke(H4, c, key, H4.subscriptions[c][key], args)

\* promises.forEach(async (resolve) => { resolve(await component.async[key]); })
\* for one key: each relay asks the target for its next `key` at once; a
\* finalized target gives a rejected promise, the relay's await throws inside
\* the async arrow and the original resolve is never called.
RECURSIVE Relay(_, _, _, _)
Relay(H, t, key, set) ==
    IF set = <<>> THEN H
    ELSE LET r == Head(set)
             H1 == triggerPromise(H, t, key, Resolver(r.w, r.hops + 1))
         IN Relay(IF Threw(H1) THEN H ELSE H1, t, key, Tail(set))

RECURSIVE ForwardPromises(_, _, _, _)
ForwardPromises(H, map, keys, t) ==
    IF keys = {} THEN H
    ELSE LET key == CHOOSE k \in keys : TRUE
         IN ForwardPromises(Relay(H, t, key, map[key]), map, keys \ {key}, t)

\* subscriptions.forEach((callback) => component.sub[key](callback)) for one
\* key; the first throw ends the forwarding
\* a forwarding that registers each callback on the target without looking
\* for it there
RECURSIVE Register_Blind(_, _, _, _)
Register_Blind(H, t, key, set) ==
    IF set = <<>> \/ Threw(H) THEN H
    ELSE Register_Blind(triggerSubscribe_Again(H, t, key, Head(set)), t, key, Tail(set))

\* a forwarding that moves a callback the target already holds to the end of
\* the target's set
RECURSIVE Register_Move(_, _, _, _)
Register_Move(H, t, key, set) ==
    IF set = <<>> \/ Threw(H) THEN H
    ELSE LET H1 == getTriggerSet(H, t, "subscriptions", key)
             H2 == IF Threw(H1) THEN H1
                   ELSE [H1 EXCEPT !.subscriptions[t][key] =
                            Append(SeqDelete(@, Head(set)), Head(set))]
         IN Register_Move(H2, t, key, Tail(set))

RECURSIVE Register(_, _, _, _)
Register(H, t, key, set) ==
    IF set = <<>> \/ Threw(H) THEN H
    ELSE Register(triggerSubscribe(H, t, key, Head(set)), t, key, Tail(set))

RECURSIVE ForwardSubscriptions(_, _, _, _)
ForwardSubscriptions(H, map, keys, t) ==
    IF keys = {} \/ Threw(H) THEN H
    ELSE LET key == CHOOSE k \in keys : TRUE
         IN ForwardSubscriptions(Register(H, t, key, map[key]), map, keys \ {key}, t)

\* finalizeTriggers that clears the pending promises without relaying them
finalizeTriggers_NoRelay(H, c, t) ==
    IF H.finalized[c] THEN Throw(H, AlreadyFinalized)
    ELSE LET H1 == [H EXCEPT !.finalized[c] = TRUE]
             H3 == ForwardSubscriptions(H1, H1.subscriptions[c],
                                        DOMAIN H1.subscriptions[c], t)
         IN IF Threw(H3) THEN H3
            ELSE [H3 EXCEPT !.promises[c] = EmptyMap, !.subscriptions[c] = EmptyMap]

\* finalizeTriggers without the guard on this.finalized
finalizeTriggers_Unguarded(H, c, t) ==
    LET H1 == [H EXCEPT !.finalized[c] = TRUE]
        H2 == ForwardPromises(H1, H1.promises[c], DOMAIN H1.promises[c], t)
        H3 == ForwardSubscriptions(H2, H2.subscriptions[c],
                                   DOMAIN H2.subscriptions[c], t)
    IN IF Threw(H3) THEN H3
       ELSE [H3 EXCEPT !.promises[c] = EmptyMap, !.subscriptions[c] = EmptyMap]

\* PSComponent.finalizeTriggers(component), this = c
finalizeTriggers(H, c, t) ==
    IF H.finalized[c] THEN Throw(H, AlreadyFinalized)
    ELSE LET H1 == [H EXCEPT !.finalized[c] = TRUE]
             H2 == ForwardPromises(H1, H1.promises[c], DOMAIN H1.promises[c], t)
             H3 == ForwardSubscriptions(H2, H2.subscriptions[c],
                                        DOMAIN H2.subscriptions[c], t)
         IN IF Threw(H3) THEN H3
            ELSE [H3 EXCEPT !.promises[c] = EmptyMap, !.subscriptions[c] = EmptyMap]

\* ------------------------------------------------------------- PubSubProxy
\* PubSubProxy.getTriggerSet(map, key), map being the proxy's field `which`
ProxyGetTriggerSet(H, p, which, key) ==
    IF Has(H[which][p], key) THEN H
    ELSE [H EXCEPT ![which][p] = MapSet(@, key, <<>>)]

\* the get trap of PubSubProxy.async, r being the new promise's resolve
ProxyAsync(H, p, key, r) ==
    LET H1 == ProxyGetTriggerSet(H, p, "ppromises", key)
    IN [H1 EXCEPT !.ppromises[p][key] = Append(@, r)]

ProxyTriggerSubscribe(H, p, key, callback) ==
    LET H1 == ProxyGetTriggerSet(H, p, "psubscriptions", key)
    IN [H1 EXCEPT !.psubscriptions[p][key] = SeqAdd(@, callback)]

\* triggerUnsubscribe that looks the key's set up and deletes nothing from it
ProxyTriggerUnsubscribe_Kept(H, p, key, callback) ==
    ProxyGetTriggerSet(H, p, "psubscriptions", key)

ProxyTriggerUnsubscribe(H, p, key, callback) ==
    LET H1 == ProxyGetTriggerSet(H, p, "psubscriptions", key)
        set == SeqDelete(H1.psubscriptions[p][key], callback)
    IN [H1 EXCEPT !.psubscriptions[p] =
           IF Len(set) = 0 THEN MapDelete(@, key) ELSE MapSet(@, key, set)]

\* finalize that clears the pending promises without relaying them
ProxyFinalize_NoRelay(H, p, t) ==
    LET H2 == ForwardSubscriptions(H, H.psubscriptions[p],
                                   DOMAIN H.psubscriptions[p], t)
    IN IF Threw(H2) THEN H2
       ELSE [H2 EXCEPT !.ppromises[p] = EmptyMap, !.psubscriptions[p] = EmptyMap,
                       !.forwarded = @ \cup {p}]

\* finalize that clears the buffered callbacks without registering them
ProxyFinalize_NoRegister(H, p, t) ==
    LET H1 == ForwardPromises(H, H.ppromises[p], DOMAIN H.ppromises[p], t)
    IN [H1 EXCEPT !.ppromises[p] = EmptyMap, !.psubscriptions[p] = EmptyMap,
                  !.forwarded = @ \cup {p}]

\* finalize that leaves the buffered callbacks in the proxy
ProxyFinalize_KeepSubscriptions(H, p, t) ==
    LET H1 == ForwardPromises(H, H.ppromises[p], DOMAIN H.ppromises[p], t)
        H2 == ForwardSubscriptions(H1, H1.psubscriptions[p],
                                   DOMAIN H1.psubscriptions[p], t)
    IN IF Threw(H2) THEN H2
       ELSE [H2 EXCEPT !.ppromises[p] = EmptyMap, !.forwarded = @ \cup {p}]

\* PubSubProxy.finalize(pubsub), pubsub being a handle of component t
ProxyFinalize(H, p, t) ==
    LET H1 == ForwardPromises(H, H.ppromises[p], DOMAIN H.ppromises[p], t)
        H2 == ForwardSubscriptions(H1, H1.psubscriptions[p],
                                   DOMAIN H1.psubscriptions[p], t)
    IN IF Threw(H2) THEN H2
       ELSE [H2 EXCEPT !.ppromises[p] = EmptyMap, !.psubscriptions[p] = EmptyMap,
                       !.forwarded = @ \cup {p}]

\* --------------------------------------------------------- named registries
\* a get trap that makes a new PubSubProxy on every read that finds no handle
RegistryGet_Fresh(H, reg, name) ==
    IF H.slot[reg][name].t # "handle"
    THEN [H EXCEPT !.slot[reg][name] = Proxy, !.made = @ \cup {<<reg, name>>},
                   !.ppromises[<<reg, name>>] = EmptyMap,
                   !.psubscriptions[<<reg, name>>] = EmptyMap]
    ELSE H

\* a get trap that stores a new PubSubProxy unless it finds a PubSubProxy
RegistryGet_Overwrite(H, reg, name) ==
    IF H.slot[reg][name].t # "proxy"
    THEN [H EXCEPT !.slot[reg][name] = Proxy, !.made = @ \cup {<<reg, name>>}]
    ELSE H

\* the get trap of this.ps and of GlobalPubSub(): the occupant it returns
RegistryGet(H, reg, name) ==
    IF H.slot[reg][name].t = "empty"
    THEN [H EXCEPT !.slot[reg][name] = Proxy, !.made = @ \cup {<<reg, name>>}]
    ELSE H

\* a set trap of this.ps that finalizes the handle it replaces
PsForward_Occupant(H, occupant, value) == finalizeTriggers(H, occupant.c, value.c)

\* the forwarding the set trap of this.ps does when the name holds a handle
PsForward(H, occupant, value) == finalizeTriggers(H, Owner, value.c)

\* the forwarding the set trap of GlobalPubSub() does when the name holds a
\* handle: this.pubsubObject has no property finalizeTriggers
GlobalForward(H, occupant, value) ==
    IF occupant.k = "self" THEN finalizeTriggers(H, occupant.c, value.c)
    ELSE Throw(H, NotAFunction)

\* the set trap: reg[name] = value
RegistrySet(H, reg, name, value) ==
    LET occupant == H.slot[reg][name]
        H1 == IF occupant.t = "empty" THEN H
              ELSE IF occupant.t = "proxy" THEN ProxyFinalize(H, <<reg, name>>, value.c)
              ELSE IF reg = Ps THEN PsForward(H, occupant, value)
              ELSE GlobalForward(H, occupant, value)
    IN IF Threw(H1) THEN H1 ELSE [H1 EXCEPT !.slot[reg][name] = value]

\* ------------------------------------------------------ the consumer's loop
\* await reg.<name>.async.<key> of the loop `while (true) { await ...; body }`:
\* the name is read again on every iteration; the promise it gets is the
\* first one not handed out yet, and a rejected promise ends the loop
watchdogAwait(H, reg, name, key) ==
    LET free == {w \in 1..MaxWaiters : H.waiter[w].st = "none"}
        w == CHOOSE v \in free : \A u \in free : v <= u
        H1 == RegistryGet(H, reg, name)
        occupant == H1.slot[reg][name]
        H2 == IF occupant.t = "proxy" THEN ProxyAsync(H1, <<reg, name>>, key, Resolver(w, 0))
              ELSE triggerPromise(H1, occupant.c, key, Resolver(w, 0))
    IN IF Threw(H2)
       THEN [H1 EXCEPT !.waiter[w].st = "rejected", !.watchdog.pc = "ended"]
       ELSE [H2 EXCEPT !.waiter[w].st = "pending",
                       !.watchdog = [pc |-> "awaiting", reg |-> reg, name |-> name,
                                     key |-> key, w |-> w]]

\* the loop after its await: the body, then the next await
watchdogResume(H) ==
    watchdogAwait(childUpdated(H, "async"), H.watchdog.reg, H.watchdog.name, H.watchdog.key)

\* the consumer's constructor: reg.<name>.sub.<key>(childUpdated.bind(this, "sub"))
\* and this.watchdog(), which runs up to its first await
Parent(H, reg, name, key) ==
    LET H1 == RegistryGet(H, reg, name)
        occupant == H1.slot[reg][name]
        H2 == IF occupant.t = "proxy" THEN ProxyTriggerSubscribe(H1, <<reg, name>>, key, Logging)
              ELSE triggerSubscribe(H1, occupant.c, key, Logging)
    IN IF Threw(H2) THEN H2 ELSE watchdogAwait(H2, reg, name, key)

\* ------------------------------------------------------------ constructor
\* an element of the pubsub prop: a string, or a registry
N(n) == [t |-> "name", v |-> n]
R(r) == [t |-> "reg", v |-> r]
Undefined == [t |-> "undefined", v |-> "-"]
At(pubsub, i) == IF i <= Len(pubsub) THEN pubsub[i] ELSE Undefined

\* globals.forEach((global) => { global[id] = this.pubsubObject; })
RECURSIVE RegisterGlobals(_, _, _, _)
RegisterGlobals(H, c, id, globals) ==
    IF globals = <<>> \/ Threw(H) THEN H
    ELSE LET global == Head(globals)
             H1 == IF global.t = "reg"
                   THEN RegistrySet(H, global.v, id, Handle(c, "object"))
                   ELSE Throw(H, SetOnUndefined)
         IN RegisterGlobals(H1, c, id, Tail(globals))

\* the linkage without the check of typeof id after a name
Link_Unchecked(H, c, pubsub) ==
    IF pubsub = <<>> THEN H
    ELSE LET parentPubsubs == At(pubsub, 1)
             id == At(pubsub, 2)
             globals == SubSeq(pubsub, 3, Len(pubsub))
         IN IF parentPubsubs.t = "name"
            THEN RegisterGlobals(H, c, parentPubsubs.v, <<id>> \o globals)
            ELSE IF id.t # "name" THEN Throw(H, IdNotString)
            ELSE RegisterGlobals(
                     RegistrySet(H, parentPubsubs.v, id.v, Handle(c, "object")),
                     c, id.v, globals)

\* "Register this child with the parent" of the PSComponent constructor;
\* pubsub = <<>> stands for props.pubsub === undefined
Link(H, c, pubsub) ==
    IF pubsub = <<>> THEN H
    ELSE LET parentPubsubs == At(pubsub, 1)
             id == At(pubsub, 2)
             globals == SubSeq(pubsub, 3, Len(pubsub))
         IN IF parentPubsubs.t = "name"
            THEN IF id.t = "name" THEN Throw(H, IdIsString)
                 ELSE RegisterGlobals(H, c, parentPubsubs.v, <<id>> \o globals)
            ELSE IF id.t # "name" THEN Throw(H, IdNotString)
                 ELSE RegisterGlobals(
                          RegistrySet(H, parentPubsubs.v, id.v, Handle(c, "object")),
                          c, id.v, globals)

\* new PSComponent(props): the fields are made, then the linkage runs
Constructor(H, c, pubsub) ==
    LET H1 == Link(H, c, pubsub)
    IN [H1 EXCEPT !.status[c] = IF Threw(H1) THEN "threw" ELSE "ok"]

\* the pubsub props the model constructs components with
Linkages ==
    {<<>>}
    \cup {<<R(Ps), N(n)>> : n \in Names}
    \cup {<<R(Ps), N(n), R(Global)>> : n \in Names}
    \cup {<<N(n), R(Global)>> : n \in Names}
    \cup {<<N(n)>> : n \in Names}
    \cup {<<N(n), N(n)>> : n \in Names}
    \cup {<<R(Ps), R(Global)>>, <<R(Ps)>>}

\* ------------------------------------------------------------------- state
NoWaiter == [st |-> "none", val |-> 0, calls |-> 0]

Init ==
    /\ status = [c \in Comps |-> IF c = Owner THEN "ok" ELSE "none"]
    /\ finalized = [c \in Comps |-> FALSE]
    /\ promises = [c \in Comps |-> EmptyMap]
    /\ subscriptions = [c \in Comps |-> EmptyMap]
    /\ ppromises = [p \in Proxies |-> EmptyMap]
    /\ psubscriptions = [p \in Proxies |-> EmptyMap]
    /\ made = {}
    /\ slot = [r \in Regs |-> [n \in Names |-> Empty]]
    /\ waiter = [w \in 1..MaxWaiters |-> NoWaiter]
    /\ microtasks = <<>>
    /\ forwarded = {}
    /\ err = NoError
    /\ invoked = <<>>
    /\ op = <<"new", Owner, <<>>, "-">>
    /\ nops = 0
    /\ watchdog = [pc |-> "off", reg |-> "-", name |-> "-", key |-> "-", w |-> 0]
    /\ updated = [sub |-> 0, async |-> 0]

\* one more operation of the environment
More == nops < MaxOps
Op(name, on, a, b) == nops' = nops + 1 /\ op' = <<name, on, a, b>>
Exists(c) == status[c] # "none"
NextComp == CHOOSE c \in Comps : ~Exists(c) /\ \A d \in Comps : d < c => Exists(d)
NextWaiter == CHOOSE w \in 1..MaxWaiters :
                  waiter[w].st = "none" /\ \A v \in 1..(w - 1) : waiter[v].st # "none"

\* ----------------------------------------------------------------- actions
\* <Child pubsub={pubsub} />
Construct(pubsub) ==
    /\ More
    /\ \E c \in Comps : ~Exists(c)
    /\ Commit(Constructor(Heap, NextComp, pubsub))
    /\ Op("new", NextComp, pubsub, "-")

\* reg.<name>, read by a consumer
Read(reg, name) ==
    /\ More
    /\ Commit(RegistryGet(Heap, reg, name))
    /\ Op("get", reg, name, "-")

\* provider.<name> = this.pubsubObject, or = this
Set(name, c, kind) ==
    /\ More
    /\ status[c] = "ok"
    /\ Commit(RegistrySet(Heap, Global, name, Handle(c, kind)))
    /\ Op("set", c, name, kind)

\* this.pub.<key>(args) inside component c
Fire(c, key, args) ==
    /\ More
    /\ status[c] = "ok"
    /\ Has(subscriptions[c], key) /\ Awaiting \in Range(subscriptions[c][key])
       => \E w \in 1..MaxWaiters : waiter[w].st = "none"
    /\ Commit(trigger(Heap, c, key, args))
    /\ Op("pub", c, key, args)

\* handle.sub.<key>(callback) on component c
Subscribe(c, key, callback) ==
    /\ More
    /\ Exists(c)
    /\ Commit(triggerSubscribe(Heap, c, key, callback))
    /\ Op("sub", c, key, callback)

\* handle.unsub.<key>(callback) on component c
Unsubscribe(c, key, callback) ==
    /\ More
    /\ Exists(c)
    /\ Commit(triggerUnsubscribe(Heap, c, key, callback))
    /\ Op("unsub", c, key, callback)

\* handle.async.<key> on component c: a promise, rejected if the getter threw
Wait(c, key) ==
    /\ More
    /\ Exists(c)
    /\ \E w \in 1..MaxWaiters : waiter[w].st = "none"
    /\ LET w == NextWaiter
           H1 == triggerPromise(Heap, c, key, Resolver(w, 0))
       IN Commit([H1 EXCEPT !.waiter[w].st = IF Threw(H1) THEN "rejected" ELSE "pending"])
    /\ Op("async", c, key, NextWaiter)

\* proxy.sub.<key>(callback) on the proxy made for a name
ProxySubscribe(p, key, callback) ==
    /\ More
    /\ p \in made
    /\ Commit(ProxyTriggerSubscribe(Heap, p, key, callback))
    /\ Op("proxy.sub", p, key, callback)

ProxyUnsubscribe(p, key, callback) ==
    /\ More
    /\ p \in made
    /\ Commit(ProxyTriggerUnsubscribe(Heap, p, key, callback))
    /\ Op("proxy.unsub", p, key, callback)

\* proxy.async.<key>
ProxyWait(p, key) ==
    /\ More
    /\ p \in made
    /\ \E w \in 1..MaxWaiters : waiter[w].st = "none"
    /\ LET w == NextWaiter
           H1 == ProxyAsync(Heap, p, key, Resolver(w, 0))
       IN Commit([H1 EXCEPT !.waiter[w].st = "pending"])
    /\ Op("proxy.async", p, key, NextWaiter)

\* proxy.finalize(component), called on a reference to the proxy object: the
\* method is public, and a read of a registry returns the proxy object itself
Finalize(p, c) ==
    /\ More
    /\ p \in made
    /\ Exists(c)
    /\ Commit(ProxyFinalize(Heap, p, c))
    /\ Op("proxy.finalize", p, c, "-")

\* the consumer subscribes childUpdated and starts its await loop on reg.<name>
Watch(reg, name, key) ==
    /\ More
    /\ watchdog.pc = "off"
    /\ \E w \in 1..MaxWaiters : waiter[w].st = "none"
    /\ Commit(Parent(Heap, reg, name, key))
    /\ Op("watch", reg, name, key)

\* the continuation of a relay's await: resolve(<the awaited value>); or the
\* continuation of the loop's await (hops = 0)
RunMicrotask ==
    /\ microtasks # <<>>
    /\ Head(microtasks).hops = 0 => \E w \in 1..MaxWaiters : waiter[w].st = "none"
    /\ LET job == Head(microtasks)
           H1 == [Heap EXCEPT !.microtasks = Tail(@)]
       IN Commit(IF job.hops = 0 THEN watchdogResume(H1)
                 ELSE Resolve(H1, Resolver(job.w, job.hops - 1), job.val))
    /\ op' = <<"microtask", Head(microtasks).w, Head(microtasks).hops, Head(microtasks).val>>
    /\ UNCHANGED nops

\* the steps of the program over the trigger keys, callbacks and pubsub props
\* that its environment uses
Step(keys, callbacks, linkages) ==
    \/ \E pubsub \in linkages : Construct(pubsub)
    \/ \E reg \in Regs, name \in Names : Read(reg, name)
    \/ \E name \in Names, c \in Comps, kind \in Kinds : Set(name, c, kind)
    \/ \E c \in Comps, key \in keys, args \in Args : Fire(c, key, args)
    \/ \E c \in Comps, key \in keys, callback \in callbacks : Subscribe(c, key, callback)
    \/ \E c \in Comps, key \in keys, callback \in callbacks : Unsubscribe(c, key, callback)
    \/ \E c \in Comps, key \in keys : Wait(c, key)
    \/ \E p \in Proxies, key \in keys, callback \in callbacks : ProxySubscribe(p, key, callback)
    \/ \E p \in Proxies, key \in keys, callback \in callbacks : ProxyUnsubscribe(p, key, callback)
    \/ \E p \in Proxies, key \in keys : ProxyWait(p, key)
    \/ RunMicrotask

\* well-formed pubsub props
Linked ==
    {<<>>}
    \cup {<<R(Ps), N(n)>> : n \in Names}
    \cup {<<R(Ps), N(n), R(Global)>> : n \in Names}
    \cup {<<N(n), R(Global)>> : n \in Names}

Next == Step({"m"}, {"s"}, Linked)

Spec == Init /\ [][Next]_vars

\* the event loop runs every queued continuation
FairSpec == Spec /\ WF_vars(RunMicrotask)

\* the program with consumers that subscribe two callbacks, one of which
\* awaits the next occurrence of the key from inside the call
NextReentrant == Step({"m"}, Callbacks, {<<>>})

SpecReentrant == Init /\ [][NextReentrant]_vars

\* the program with every form of the pubsub prop, the malformed ones included
NextLinkages == Step({"m"}, {"s"}, Linkages)

SpecLinkages == Init /\ [][NextLinkages]_vars

\* the program with two trigger keys, its components constructed unlinked
NextNames == Step(Msgs, {"s"}, {<<>>})

SpecNames == Init /\ [][NextNames]_vars

\* the program with a consumer that subscribes a callback and runs an await
\* loop on the same name for the same key
NextWatchdog ==
    \/ \E pubsub \in Linked : Construct(pubsub)
    \/ \E reg \in Regs, name \in Names : Read(reg, name)
    \/ \E name \in Names, c \in Comps, kind \in Kinds : Set(name, c, kind)
    \/ \E c \in Comps, args \in Args : Fire(c, "m", args)
    \/ \E reg \in Regs, name \in Names : Watch(reg, name, "m")
    \/ RunMicrotask

SpecWatchdog == Init /\ [][NextWatchdog]_vars

\* the program with callers of finalize other than the registries
NextDirect ==
    \/ Next
    \/ \E p \in Proxies, c \in Comps : Finalize(p, c)

SpecDirect == Init /\ [][NextDirect]_vars

\* ------------------------------------------------------- reading the state
Waiters == 1..MaxWaiters
Held(map, key) == IF Has(map, key) THEN map[key] ELSE <<>>
Occupant(p) == slot[p[1]][p[2]]

\* the promise w waits in proxy p for key
OnProxy(w, p, key) ==
    \E i \in 1..Len(Held(ppromises[p], key)) : ppromises[p][key][i].w = w
\* component c holds a relay of `hops` awaits that ends in the promise w
RelayedOn(w, c, key, hops) ==
    \E i \in 1..Len(Held(promises[c], key)) :
        promises[c][key][i] = Resolver(w, hops)
OnComp(w, c, key) ==
    \E i \in 1..Len(Held(promises[c], key)) : promises[c][key][i].w = w
\* a relay of w has been given the value and its continuation is queued
InFlight(w, value) ==
    \E i \in 1..Len(microtasks) : microtasks[i].w = w /\ microtasks[i].val = value
ResolvedWith(w, value) == waiter[w] = [st |-> "resolved", val |-> value, calls |-> 1]
Subscribed(c, key, callback) == callback \in Range(Held(subscriptions[c], key))
Buffered(p, key, callback) == callback \in Range(Held(psubscriptions[p], key))
Called(callback, args) == \E i \in 1..Len(invoked) : invoked[i] = [cb |-> callback, args |-> args]
IsNext(c) == ~Exists(c) /\ \A d \in Comps : d < c => Exists(d)

\* a step that is this.pub.<key>(args) of c (op' names the call a step makes)
Fired(c, key, args) == op' = <<"pub", c, key, args>> /\ Fire(c, key, args)
\* a step that is this.pub.<key>(args) of c and returns
Published(c, key, args) == Fired(c, key, args) /\ err' = NoError

\* ------------------------------------------------------------------ claims
\* A relay stays on its component until that component publishes the key or
\* is finalized (and a finalized component never publishes again).
RelayKept ==
    [][\/ UNCHANGED promises
       \/ \A w \in Waiters, c \in Comps, key \in Msgs, hops \in 1..NComp :
             RelayedOn(w, c, key, hops)
             => \/ RelayedOn(w, c, key, hops)'
                \/ finalized'[c]
                \/ \E args \in Args : Published(c, key, args)]_vars

\* The component's publication of the key hands its args to every relay it
\* holds for the key, and the component holds the relay no longer.
RelayFired ==
    [][op'[1] = "pub"
       => \A c \in Comps, key \in Msgs, args \in Args :
             Published(c, key, args)
             => \A w \in Waiters, hops \in 1..NComp :
                   RelayedOn(w, c, key, hops)
                   => InFlight(w, args)' /\ ~OnComp(w, c, key)']_vars

\* A promise resolved with a value stays resolved with it, by one call.
ResolvedOnce ==
    [][\/ UNCHANGED waiter
       \/ \A w \in Waiters, value \in Args :
             ResolvedWith(w, value) => ResolvedWith(w, value)']_vars

\* C1 (1): the publisher constructed with pubsub = [this.ps, "child"] takes
\* over, as a relay, every promise that waits in the proxy of ps.child.
C1_Linked ==
    [][\A w \in Waiters, key \in Msgs, P \in Comps :
          /\ Occupant(<<Ps, "child">>) = Proxy
          /\ IsNext(P)
          /\ OnProxy(w, <<Ps, "child">>, key)
          /\ Construct(<<R(Ps), N("child")>>)
          => /\ err' = NoError
             /\ status'[P] = "ok"
             /\ Occupant(<<Ps, "child">>)' = Handle(P, "object")
             /\ RelayedOn(w, P, key, 1)']_vars

\* C1 (2): the value a publication handed to a relay reaches the promise.
C1_Delivered ==
    \A w \in Waiters, value \in Args : InFlight(w, value) ~> ResolvedWith(w, value)

\* C1: End-to-end deferred binding.  A consumer that awaits
\* ps.child.async.<key> while ps.child is still a proxy, followed by the
\* construction of a publisher P with pubsub = [ps, "child"], followed by P
\* publishing <key> with args A, has its promise resolved with A, eventually
\* and exactly once: the link turns the wait into a relay on P, the relay
\* stays on P until P publishes the key, the publication hands A to the relay,
\* and the relay's continuation resolves the promise with A, for good.
C1_EndToEnd == C1_Linked /\ RelayKept /\ RelayFired /\ C1_Delivered /\ ResolvedOnce

\* C1 witness: the promise 1 was awaited on the proxy of ps.child, component
\* 2 was constructed into that slot and published "m" with 2, and the
\* promise is resolved with 2.
C1_Witness ==
    /\ Occupant(<<Ps, "child">>) = Handle(2, "object")
    /\ <<Ps, "child">> \in forwarded
    /\ op = <<"microtask", 1, 1, 2>>
    /\ ResolvedWith(1, 2)

\* C2 (1): when a proxy's finalize onto a component that is not finalized
\* returns, every promise that waited in the proxy is a relay of one await on
\* that component, registered in the same step, and the proxy holds it no more.
C2_Registered ==
    [][\A p \in Proxies :
          p \notin forwarded /\ p \in forwarded'
          => \A w \in Waiters, key \in Msgs, c \in Comps :
                /\ OnProxy(w, p, key)
                /\ Occupant(p)' \in {Handle(c, k) : k \in Kinds}
                /\ ~finalized[c]
                => RelayedOn(w, c, key, 1)' /\ ~OnProxy(w, p, key)']_vars

\* C2 (2): the continuation of a relay of one await resolves the promise
\* with the value the publication handed to it.
C2_Resumed ==
    [][op'[1] = "microtask"
       => \A w \in Waiters, value \in Args :
             /\ microtasks # <<>>
             /\ Head(microtasks) = [w |-> w, hops |-> 1, val |-> value]
             /\ RunMicrotask
             => ResolvedWith(w, value)']_vars

\* C2: Placeholder future forwarding.  Every promise pending in a proxy when
\* finalize(real) runs is registered on real as a relay by finalize itself; the
\* relay stays until real next publishes the key, that publication (which may
\* be the very next step) hands its args to the relay and removes it from
\* real, the relay's continuation resolves the promise with those args, and
\* nothing resolves the promise a second time or changes its value.
\* (A real that is already finalized can publish nothing.)
C2_FutureForwarding ==
    C2_Registered /\ RelayKept /\ RelayFired /\ C2_Resumed /\ ResolvedOnce

\* C2 witness: component 2 published "m" with 1 and, before any continuation
\* ran, again with 2: the relay of promise 1 carries 1, not 2.
C2_Witness ==
    /\ forwarded # {}
    /\ op = <<"pub", 2, "m", 2>>
    /\ err = NoError
    /\ InFlight(1, 1) /\ ~InFlight(1, 2)
    /\ ~OnComp(1, 2, "m")

\* C3 (1): a publication calls no callback that is only buffered in a proxy.
C3_NotBefore ==
    [][op'[1] = "pub"
       => \A c \in Comps, key \in Msgs, args \in Args :
             Fired(c, key, args)
             => \A p \in Proxies, callback \in Callbacks :
                   Buffered(p, key, callback) /\ ~Subscribed(c, key, callback)
                   => \A i \in 1..Len(invoked') : invoked'[i].cb # callback]_vars

\* C3 (2): when a proxy's finalize returns, every callback buffered in it is
\* subscribed on the component it was finalized onto.
C3_Registered ==
    [][\A p \in Proxies :
          p \notin forwarded /\ p \in forwarded'
          => \A key \in Msgs, callback \in Callbacks, c \in Comps :
                /\ Buffered(p, key, callback)
                /\ Occupant(p)' \in {Handle(c, k) : k \in Kinds}
                => Subscribed(c, key, callback)' /\ ~finalized'[c]]_vars

\* C3 (3): a subscription stays until it is unsubscribed or the component is
\* finalized.
C3_Kept ==
    [][\/ UNCHANGED subscriptions
       \/ \A c \in Comps, key \in Msgs, callback \in Callbacks :
             Subscribed(c, key, callback)
             => \/ Subscribed(c, key, callback)'
                \/ finalized'[c]
                \/ Unsubscribe(c, key, callback)]_vars

\* C3 (4): every publication of the key calls each subscribed callback once,
\* with the publication's args.
C3_Invoked ==
    [][op'[1] = "pub"
       => \A c \in Comps, key \in Msgs, args \in Args :
             Published(c, key, args)
             => \A callback \in Callbacks :
                   Subscribed(c, key, callback)
                   => Cardinality({i \in 1..Len(invoked') :
                                      invoked'[i] = [cb |-> callback, args |-> args]}) = 1]_vars

\* C3: Placeholder subscription forwarding.  A callback subscribed on a
\* proxy is called by no publication while it is only buffered there, also
\* when the component the name will be linked to publishes the key before the
\* link; finalize subscribes it on the component, where it stays, and from
\* then on every publication of the key by the component calls it with the
\* publication's args.
C3_SubscriptionForwarding == C3_NotBefore /\ C3_Registered /\ C3_Kept /\ C3_Invoked

\* C3 witness: the construction of component 2 into ps.child has just run
\* the proxy's finalize, and "s", buffered before 2 existed, is subscribed on 2.
C3_Witness ==
    /\ op = <<"new", 2, <<R(Ps), N("child")>>, "-">>
    /\ <<Ps, "child">> \in forwarded
    /\ Subscribed(2, "m", "s")

\* C4: Name reuse does not throw.  A write of a handle to a name that already
\* holds a handle, in the provider (provider.<name> = handle, for either kind
\* of handle) and in this.ps (a child constructed with pubsub = [ps, name]),
\* raises nothing and leaves the written handle in the slot.
C4_NameReuse ==
    /\ [][\A name \in Names, c \in Comps, kind \in Kinds :
             Occupant(<<Global, name>>).t = "handle" /\ Set(name, c, kind)
             => err' = NoError /\ Occupant(<<Global, name>>)' = Handle(c, kind)]_vars
    /\ [][\A name \in Names, P \in Comps :
             /\ Occupant(<<Ps, name>>).t = "handle"
             /\ IsNext(P)
             /\ Construct(<<R(Ps), N(name)>>)
             => err' = NoError /\ Occupant(<<Ps, name>>)' = Handle(P, "object")]_vars

\* C5: Global name reuse forwards to the latest.  When a component registers
\* in the provider under a name held by another component, by its pubsub prop
\* or by an assignment, nothing is raised and every callback subscribed and
\* every promise pending on the previous component is on the latest one.
C5_GlobalReuse ==
    [][\A name \in Names, prev \in Comps, c \in Comps :
          /\ Occupant(<<Global, name>>) \in {Handle(prev, k) : k \in Kinds}
          /\ prev # c
          /\ ~finalized[prev] /\ ~finalized[c]
          /\ \/ \E kind \in Kinds : Set(name, c, kind)
             \/ IsNext(c) /\ Construct(<<N(name), R(Global)>>)
          => /\ err' = NoError
             /\ \A key \in Msgs, callback \in Callbacks :
                   Subscribed(prev, key, callback) => Subscribed(c, key, callback)'
             /\ \A key \in Msgs, w \in Waiters :
                   OnComp(w, prev, key) => OnComp(w, c, key)']_vars

\* C6: Scoped name reuse forwards to the new child.  When a child is
\* constructed with pubsub = [ps, name] and the name is linked to a previous
\* child, every callback and pending promise on the previous child moves to the
\* new child, so that the previous child's triggers reach them no more.
C6_ScopedReuse ==
    [][\A name \in Names, prev \in Comps, P \in Comps :
          /\ Occupant(<<Ps, name>>) \in {Handle(prev, k) : k \in Kinds}
          /\ IsNext(P)
          /\ Construct(<<R(Ps), N(name)>>)
          => /\ \A key \in Msgs, callback \in Callbacks :
                   Subscribed(prev, key, callback)
                   => Subscribed(P, key, callback)' /\ ~Subscribed(prev, key, callback)'
             /\ \A key \in Msgs, w \in Waiters :
                   OnComp(w, prev, key)
                   => OnComp(w, P, key)' /\ ~OnComp(w, prev, key)']_vars

\* C7: Sealed-handle misuse.  finalized never reverts, and on a finalized
\* component each of sub, unsub, async and pub, for any key, yields
\* "Already finalized." (async as the rejection of the promise it returns),
\* calls no callback, resolves no promise and changes no registry.
C7_SealedMisuse ==
    /\ [][\A c \in Comps : finalized[c] => finalized'[c]]_vars
    /\ [][\A c \in Comps, key \in Msgs :
             /\ finalized[c]
             /\ op'[1] \in {"sub", "unsub", "pub", "async"}
             /\ \/ \E callback \in Callbacks : Subscribe(c, key, callback)
                \/ \E callback \in Callbacks : Unsubscribe(c, key, callback)
                \/ \E args \in Args : Fire(c, key, args)
                \/ Wait(c, key)
             => /\ err' = AlreadyFinalized
                /\ invoked' = <<>>
                /\ \A w \in Waiters :
                      waiter'[w] = waiter[w]
                      \/ (waiter[w].st = "none" /\ waiter'[w].st = "rejected")
                /\ UNCHANGED <<promises, subscriptions, ppromises, psubscriptions,
                               microtasks, slot>>]_vars

\* C7 witness: component 1 is finalized and still holds a subscription for
\* "m"; its pub of "m" has just thrown.
C7_Witness ==
    /\ finalized[1]
    /\ op = <<"pub", 1, "m", 1>>
    /\ err = AlreadyFinalized
    /\ Subscribed(1, "m", "s")

\* C8: A second finalize call on the same proxy is a fatal error.  Once
\* finalize has returned on a proxy, a further finalize(component) on it raises
\* an error and leaves the component's promises and subscriptions as they were.
C8_SecondProxyFinalize ==
    [][\A p \in Proxies, c \in Comps :
          p \in forwarded /\ Finalize(p, c)
          => /\ err' # NoError
             /\ promises'[c] = promises[c]
             /\ subscriptions'[c] = subscriptions[c]]_vars

\* C9: A second finalize on the same component.  A registry write that runs
\* finalizeTriggers on a component that is already finalized raises
\* "Already finalized." and leaves the written component without any new
\* subscription or promise (and the slot as it was).
C9_SecondFinalize ==
    /\ [][\A name \in Names, c \in Comps :
             Occupant(<<Global, name>>) = Handle(c, "self") /\ finalized[c]
             => \A t \in Comps, kind \in Kinds :
                   op'[1] = "set" /\ Set(name, t, kind)
                   => /\ err' = AlreadyFinalized
                      /\ promises'[t] = promises[t]
                      /\ subscriptions'[t] = subscriptions[t]
                      /\ UNCHANGED slot]_vars
    /\ [][\A name \in Names, t \in Comps :
             /\ finalized[Owner]
             /\ Occupant(<<Ps, name>>).t = "handle"
             /\ op'[1] = "new"
             /\ IsNext(t)
             /\ Construct(<<R(Ps), N(name)>>)
             => /\ err' = AlreadyFinalized
                /\ promises'[t] = EmptyMap
                /\ subscriptions'[t] = EmptyMap
                /\ UNCHANGED slot]_vars

\* C9 witness: provider.child holds the finalized component 1 itself, and the
\* write of component 2, which is not finalized, has just thrown.
C9_Witness ==
    /\ op[1] = "set" /\ op[2] = 2
    /\ err = AlreadyFinalized
    /\ ~finalized[2]
    /\ Occupant(<<Global, "child">>) = Handle(1, "self")
    /\ finalized[1]

\* C10: Stale proxy misuse.  Once a proxy's finalize has returned, sub, unsub
\* and async through a kept reference to the proxy yield "Already finalized.".
C10_StaleProxy ==
    [][\A p \in Proxies, key \in Msgs :
          /\ p \in forwarded
          /\ \/ \E callback \in Callbacks : ProxySubscribe(p, key, callback)
             \/ \E callback \in Callbacks : ProxyUnsubscribe(p, key, callback)
             \/ ProxyWait(p, key)
          => err' = AlreadyFinalized]_vars

\* C11 (1): handle.async.<key> on a component that is not finalized hands
\* out a pending promise whose resolve is in the component's set for the key.
C11_Created ==
    [][op'[1] = "async"
       => \A c \in Comps, key \in Msgs :
             Wait(c, key) /\ ~finalized[c]
             => \A w \in Waiters :
                   w = NextWaiter
                   => /\ waiter'[w] = [st |-> "pending", val |-> 0, calls |-> 0]
                      /\ RelayedOn(w, c, key, 0)']_vars

\* C11 (2): a pending promise whose resolve a component holds for a key
\* changes in no step but a publication of that key by that component.
C11_Pending ==
    [][\/ UNCHANGED waiter
       \/ \A w \in Waiters, c \in Comps, key \in Msgs :
             waiter[w].st = "pending" /\ RelayedOn(w, c, key, 0)
             => \/ waiter'[w] = waiter[w]
                \/ \E args \in Args : Published(c, key, args)]_vars

\* C11 (3): the publication resolves it with its args and holds it no more.
C11_Next ==
    [][op'[1] = "pub"
       => \A c \in Comps, key \in Msgs, args \in Args :
             Published(c, key, args)
             => \A w \in Waiters :
                   RelayedOn(w, c, key, 0)
                   => ResolvedWith(w, args)' /\ ~OnComp(w, c, key)']_vars

\* C11 (4): a promise that a callback asks for while the publication is in
\* progress is pending when the publication returns, in the component's set.
C11_InProgress ==
    [][op'[1] = "pub"
       => \A c \in Comps, key \in Msgs, args \in Args :
             Fired(c, key, args)
             => \A w \in Waiters :
                   waiter[w].st = "none" /\ waiter'[w].st # "none"
                   => /\ waiter'[w] = [st |-> "pending", val |-> 0, calls |-> 0]
                      /\ RelayedOn(w, c, key, 0)']_vars

\* C11: handle.async.<key> resolves exactly once, with the args of the first
\* publication of the key that starts after the promise was made.  The
\* promise is pending when made, nothing but a publication of the key by the
\* component changes it, that publication resolves it with its own args, a
\* promise made by a callback during a publication is left pending by that
\* publication, and a resolved promise keeps its value.
C11_WaitNext == C11_Created /\ C11_Pending /\ C11_Next /\ C11_InProgress /\ ResolvedOnce

\* C11 witness: the publication of "m" with 1 by component 1 has resolved
\* promise 1 with 1 and called the awaiting callback, whose promise 2 is
\* pending in the component's set.
C11_Witness ==
    /\ op = <<"pub", 1, "m", 1>>
    /\ err = NoError
    /\ Called(Awaiting, 1)
    /\ ResolvedWith(1, 1)
    /\ waiter[2].st = "pending"
    /\ RelayedOn(2, 1, "m", 0)

\* C12: N concurrent waits, one publication.  A publication of a key
\* resolves every promise pending for the key on the component with the
\* publication's args, each by one call of its resolve, and leaves the
\* component no pending promise for the key, whether or not a callback is
\* subscribed for the key.
C12_AllResolved ==
    [][op'[1] = "pub"
       => \A c \in Comps, key \in Msgs, args \in Args :
             Published(c, key, args)
             => /\ \A w \in Waiters :
                      RelayedOn(w, c, key, 0) => ResolvedWith(w, args)'
                /\ Held(promises'[c], key) = <<>>]_vars

\* C12 witness: two waits and then one publication of "m" with 1 on component
\* 1, which has no subscriber: both promises are resolved with 1.
C12_Witness ==
    /\ nops = 3
    /\ op = <<"pub", 1, "m", 1>>
    /\ ResolvedWith(1, 1) /\ ResolvedWith(2, 1)
    /\ ~Subscribed(1, "m", "s")

\* the number of registrations of the callback in a set
Registrations(set, callback) == Cardinality({i \in 1..Len(set) : set[i] = callback})

\* C13 (1): no set of a component or of a proxy holds a callback twice.
C13_One ==
    /\ \A c \in Comps, key \in Msgs, callback \in Callbacks :
          Registrations(Held(subscriptions[c], key), callback) <= 1
    /\ \A p \in Proxies, key \in Msgs, callback \in Callbacks :
          Registrations(Held(psubscriptions[p], key), callback) <= 1

\* C13 (2): sub of a callback that is subscribed raises nothing and changes
\* no subscription, on a component that is not finalized and on a proxy.
C13_Again ==
    /\ [][op'[1] = "sub"
          => \A c \in Comps, key \in Msgs, callback \in Callbacks :
                /\ ~finalized[c]
                /\ Subscribed(c, key, callback)
                /\ Subscribe(c, key, callback)
                => err' = NoError /\ UNCHANGED <<subscriptions, psubscriptions>>]_vars
    /\ [][op'[1] = "proxy.sub"
          => \A p \in Proxies, key \in Msgs, callback \in Callbacks :
                Buffered(p, key, callback) /\ ProxySubscribe(p, key, callback)
                => err' = NoError /\ UNCHANGED <<subscriptions, psubscriptions>>]_vars

\* C13 (3): a publication calls a subscribed callback once.
C13_Delivered ==
    [][op'[1] = "pub"
       => \A c \in Comps, key \in Msgs, args \in Args :
             Published(c, key, args)
             => \A callback \in Callbacks :
                   Subscribed(c, key, callback)
                   => Registrations([i \in 1..Len(invoked') |-> invoked'[i].cb],
                                    callback) = 1]_vars

\* C13: Subscribe is idempotent per (key, callback).  However often a
\* callback is subscribed for a key, on a component or on a proxy, the set
\* holds it once, a repeated sub changes nothing, and each publication of the
\* key calls it once.
C13_SubscribeIdempotent == []C13_One /\ C13_Again /\ C13_Delivered

\* C13 witness: the second operation of the run is sub.m(s) on component 1,
\* which held s for "m" (nothing else of the initial state has changed), and
\* holds it once.
C13_Witness ==
    /\ nops = 2
    /\ op = <<"sub", 1, "m", "s">>
    /\ err = NoError
    /\ subscriptions[1] = [k \in {"m"} |-> <<"s">>]
    /\ promises[1] = EmptyMap
    /\ made = {} /\ status[2] = "none" /\ waiter[1].st = "none"

\* C14: Unsubscribing a callback that is not subscribed.  unsub of a
\* callback that the key's set does not hold, on a component that is not
\* finalized and on a proxy, raises nothing, calls nothing, and leaves the
\* callbacks of every key, in their order, and every promise as they were: a
\* later publication calls the callbacks it would have called.
C14_UnsubscribeAbsent ==
    /\ [][op'[1] = "unsub"
          => \A c \in Comps, key \in Msgs, callback \in Callbacks :
                /\ ~finalized[c]
                /\ ~Subscribed(c, key, callback)
                /\ Unsubscribe(c, key, callback)
                => /\ err' = NoError
                   /\ invoked' = <<>>
                   /\ \A d \in Comps, k \in Msgs :
                         Held(subscriptions'[d], k) = Held(subscriptions[d], k)
                   /\ UNCHANGED <<promises, ppromises, psubscriptions, waiter,
                                  microtasks, slot, finalized>>]_vars
    /\ [][op'[1] = "proxy.unsub"
          => \A p \in Proxies, key \in Msgs, callback \in Callbacks :
                ~Buffered(p, key, callback) /\ ProxyUnsubscribe(p, key, callback)
                => /\ err' = NoError
                   /\ invoked' = <<>>
                   /\ \A q \in Proxies, k \in Msgs :
                         Held(psubscriptions'[q], k) = Held(psubscriptions[q], k)
                   /\ UNCHANGED <<promises, subscriptions, ppromises, waiter,
                                  microtasks, slot, finalized>>]_vars

\* C14 witness: after three operations, the last being unsub.m(s) on
\* component 1, the component holds the callback Awaiting and a pending
\* promise for "m": s was never subscribed.
C14_Witness ==
    /\ nops = 3
    /\ op = <<"unsub", 1, "m", "s">>
    /\ err = NoError
    /\ Held(subscriptions[1], "m") = <<Awaiting>>
    /\ waiter[1].st = "pending" /\ RelayedOn(1, 1, "m", 0)

\* C15 (1): when a proxy's finalize onto a component returns, a callback that
\* the proxy buffered for a key, or that the component held for it, is once in
\* the component's set for the key; so it is when two proxies that buffer the
\* same callback are finalized onto the component in one construction.
C15_Merged ==
    [][\A p \in Proxies :
          p \notin forwarded /\ p \in forwarded'
          => \A c \in Comps, key \in Msgs, callback \in Callbacks :
                /\ Occupant(p)' \in {Handle(c, k) : k \in Kinds}
                /\ Buffered(p, key, callback) \/ Subscribed(c, key, callback)
                => Registrations(Held(subscriptions'[c], key), callback) = 1]_vars

\* C15: No double delivery through forwarding.  A callback subscribed for a
\* key by several routes that end on one component (buffered in the proxies
\* of this.ps and of the provider, subscribed on the component itself) is once
\* in the component's set, and each publication of the key calls it once.
C15_NoDoubleDelivery == C15_Merged /\ []C13_One /\ C13_Delivered

\* C15 witness: component 2 was constructed with pubsub = [ps, "child",
\* provider] as the fifth operation, both proxies were finalized onto it, and
\* it holds s for "m" once.
C15_Witness ==
    /\ nops = 5
    /\ op = <<"new", 2, <<R(Ps), N("child"), R(Global)>>, "-">>
    /\ forwarded = Proxies
    /\ err = NoError
    /\ subscriptions[2] = [k \in {"m"} |-> <<"s">>]

\* the pubsub props of the documented forms: [registry, name, ...globals] and
\* [name, ...globals], with no global or one
WellFormed ==
    {<<R(Ps), N(n)>> : n \in Names}
    \cup {<<R(Ps), N(n), R(Global)>> : n \in Names}
    \cup {<<N(n)>> : n \in Names}
    \cup {<<N(n), R(Global)>> : n \in Names}
\* the name a well-formed pubsub prop registers under, and the slots it names
IdOf(pubsub) == IF pubsub[1].t = "name" THEN pubsub[1].v ELSE pubsub[2].v
Targets(pubsub) ==
    {<<pubsub[i].v, IdOf(pubsub)>> : i \in {j \in 1..Len(pubsub) : pubsub[j].t = "reg"}}

\* C16: Construction-time linkage.  The construction of a component with a
\* pubsub prop [registry, name, ...globals] or [name, ...globals], with zero
\* or more globals, every slot it names being empty or holding a proxy,
\* raises nothing and leaves the component's handle in each slot it names.
C16_Linkage ==
    [][op'[1] = "new"
       => \A pubsub \in WellFormed, P \in Comps :
             /\ IsNext(P)
             /\ \A p \in Targets(pubsub) : Occupant(p).t \in {"empty", "proxy"}
             /\ Construct(pubsub)
             => /\ err' = NoError
                /\ status'[P] = "ok"
                /\ \A p \in Targets(pubsub) : Occupant(p)' = Handle(P, "object")]_vars

\* the pubsub props with a name where the registry belongs, or with
\* something else than a name where the name belongs
Malformed ==
    {pubsub \in Linkages :
        /\ pubsub # <<>>
        /\ \/ At(pubsub, 1).t = "name" /\ At(pubsub, 2).t = "name"
           \/ At(pubsub, 1).t = "reg" /\ At(pubsub, 2).t # "name"}

\* C17: Malformed linkage fails fast.  The construction of a component with
\* a malformed pubsub prop throws one of the two TypeErrors of the
\* constructor, and no slot, proxy or component has been written.
C17_Malformed ==
    [][op'[1] = "new"
       => \A pubsub \in Malformed, P \in Comps :
             IsNext(P) /\ Construct(pubsub)
             => /\ err' = (IF pubsub[1].t = "name" THEN IdIsString ELSE IdNotString)
                /\ status'[P] = "threw"
                /\ UNCHANGED <<slot, made, forwarded, finalized, promises,
                               subscriptions, ppromises, psubscriptions, waiter,
                               microtasks>>]_vars

\* C17 witness: the construction of component 2 with pubsub = ["child",
\* "child"] has thrown "ID cannot be a string."; the provider's slot still
\* holds the proxy with its buffered callback.
C17_Witness ==
    /\ op = <<"new", 2, <<N("child"), N("child")>>, "-">>
    /\ err = IdIsString
    /\ status[2] = "threw"
    /\ Occupant(<<Global, "child">>) = Proxy
    /\ Buffered(<<Global, "child">>, "m", "s")

\* C18 (1): a read of an empty slot stores a proxy there; a read of any other
\* slot changes nothing: the occupant and what it buffers are the same.
C18_Read ==
    [][op'[1] = "get"
       => \A reg \in Regs, name \in Names :
             Read(reg, name)
             => /\ err' = NoError
                /\ IF Occupant(<<reg, name>>).t = "empty"
                   THEN /\ slot' = [slot EXCEPT ![reg][name] = Proxy]
                        /\ made' = made \cup {<<reg, name>>}
                   ELSE UNCHANGED <<slot, made>>
                /\ UNCHANGED <<ppromises, psubscriptions, promises, subscriptions,
                               forwarded, finalized, waiter, microtasks>>]_vars

\* C18 (2): a proxy is made only by a read of an empty slot, and a slot that
\* holds a handle holds a handle ever after.
C18_Made ==
    [][\/ UNCHANGED <<slot, made>>
       \/ \A p \in Proxies :
             /\ p \notin made /\ p \in made'
                => Occupant(p).t = "empty" /\ Read(p[1], p[2])
             /\ Occupant(p).t = "handle" => Occupant(p)'.t = "handle"
             /\ Occupant(p).t = "proxy" => Occupant(p)'.t # "empty"]_vars

\* C18: reg.<name> is idempotent.  On an empty slot it stores a proxy and
\* returns it; further reads return the same occupant, with what it has
\* buffered, and make no proxy; once a handle is in the slot no read makes a
\* proxy for the name.
C18_GetIdempotent == C18_Read /\ C18_Made

\* C18 witness: read, proxy.sub.m(s), read of provider.child: the second read
\* found the proxy of the first, with its buffered callback.
C18_Witness ==
    /\ nops = 3
    /\ op = <<"get", Global, "child", "-">>
    /\ Occupant(<<Global, "child">>) = Proxy
    /\ made = {<<Global, "child">>}
    /\ Buffered(<<Global, "child">>, "m", "s")

\* C19 (1): a publication resolves, with its args, every promise the
\* component held for the key before it calls a callback: the promises it
\* held are resolved and gone, and the promise that the callback Awaiting asks
\* for during the publication is the only one the component then holds.
C19_PromisesFirst ==
    [][op'[1] = "pub"
       => \A c \in Comps, key \in Msgs, args \in Args :
             Published(c, key, args)
             => /\ \A w \in Waiters :
                      RelayedOn(w, c, key, 0)
                      => ResolvedWith(w, args)' /\ ~OnComp(w, c, key)'
                /\ Subscribed(c, key, Awaiting)
                   => /\ Len(Held(promises'[c], key)) = 1
                      /\ \A w \in Waiters :
                            OnComp(w, c, key)' => waiter[w].st = "none"]_vars

\* C19 (2): the publication calls the callbacks of the key's set, each with
\* its args, in the order of the set.
C19_InOrder ==
    [][op'[1] = "pub"
       => \A c \in Comps, key \in Msgs, args \in Args :
             Published(c, key, args)
             => invoked' = [i \in 1..Len(Held(subscriptions[c], key)) |->
                               [cb |-> subscriptions[c][key][i], args |-> args]]]_vars

\* C19 (3): the order of the set is the order of first subscription: sub
\* of a callback the set holds leaves the set as it is, sub of another one puts
\* it last, unsub takes the callback out and keeps the order of the others.
C19_Position ==
    /\ [][op'[1] = "sub"
          => \A c \in Comps, key \in Msgs, callback \in Callbacks :
                ~finalized[c] /\ Subscribe(c, key, callback)
                => Held(subscriptions'[c], key) =
                      (IF Subscribed(c, key, callback)
                       THEN Held(subscriptions[c], key)
                       ELSE Append(Held(subscriptions[c], key), callback))]_vars
    /\ [][op'[1] = "unsub"
          => \A c \in Comps, key \in Msgs, callback \in Callbacks :
                ~finalized[c] /\ Unsubscribe(c, key, callback)
                => Held(subscriptions'[c], key) =
                      SeqDelete(Held(subscriptions[c], key), callback)]_vars

\* C19: Order of a publication.  pub.<key>(args) first resolves and removes
\* every pending promise of the key, each with args, and only then calls
\* every subscribed callback with args, in the order in which the callbacks
\* were first subscribed.
C19_FireOrder == C19_PromisesFirst /\ C19_InOrder /\ C19_Position

\* C19 witness: the fourth operation, pub.m(1) of component 1, has resolved
\* promise 1 with 1 and then called Awaiting and s, in the order of their
\* subscription; the promise Awaiting asked for is pending.
C19_Witness ==
    /\ nops = 4
    /\ op = <<"pub", 1, "m", 1>>
    /\ invoked = <<[cb |-> Awaiting, args |-> 1], [cb |-> "s", args |-> 1]>>
    /\ ResolvedWith(1, 1)
    /\ waiter[2].st = "pending" /\ RelayedOn(2, 1, "m", 0)

\* C20 (1): a publication calls each callback subscribed for the key once,
\* with its args, calls no callback that is not subscribed for it, and leaves
\* every subscription of the component in place.
C20_EveryFire ==
    [][op'[1] = "pub"
       => \A c \in Comps, key \in Msgs, args \in Args :
             Published(c, key, args)
             => \A callback \in Callbacks :
                   IF Subscribed(c, key, callback)
                   THEN /\ Registrations([i \in 1..Len(invoked') |-> invoked'[i]],
                                         [cb |-> callback, args |-> args]) = 1
                        /\ Subscribed(c, key, callback)'
                   ELSE ~\E a \in Args : Called(callback, a)']_vars

\* C20 (2): a subscription on a component that is not finalized ends by
\* unsub of that callback for that key on that component, or by the
\* component's finalize, and by nothing else; unsub ends it.
C20_UntilUnsubscribed ==
    /\ [][\/ UNCHANGED subscriptions
          \/ \A c \in Comps, key \in Msgs, callback \in Callbacks :
                Subscribed(c, key, callback) /\ ~Subscribed(c, key, callback)'
                => Unsubscribe(c, key, callback) \/ (~finalized[c] /\ finalized'[c])]_vars
    /\ [][op'[1] = "unsub"
          => \A c \in Comps, key \in Msgs, callback \in Callbacks :
                ~finalized[c] /\ Unsubscribe(c, key, callback)
                => err' = NoError /\ ~Subscribed(c, key, callback)']_vars

\* C20 (3): a callback comes to be subscribed on a component by sub on the
\* component, or by a forwarding onto it (a registry write), not otherwise.
C20_Again ==
    [][\/ UNCHANGED subscriptions
       \/ \A c \in Comps, key \in Msgs, callback \in Callbacks :
             ~Subscribed(c, key, callback) /\ Subscribed(c, key, callback)'
             => Subscribe(c, key, callback) \/ op'[1] \in {"new", "set"}]_vars

\* C20: A subscription is durable.  A callback subscribed for a key on a
\* component that is not finalized is called once, with the publication's
\* args, by every publication of the key, until it is unsubscribed; from then
\* on no publication calls it until it is subscribed again.
C20_Durable == C20_EveryFire /\ C20_UntilUnsubscribed /\ C20_Again

\* C20 witness: four operations on component 1, a wait, sub.m(s), pub.m(1)
\* which resolved the wait, and now pub.m(2): s has been called with 2 and is
\* still subscribed.
C20_Witness ==
    /\ nops = 4
    /\ op = <<"pub", 1, "m", 2>>
    /\ ResolvedWith(1, 1)
    /\ invoked = <<[cb |-> "s", args |-> 2]>>
    /\ Subscribed(1, "m", "s")

\* C21: The await loop and the subscription have the same effect.  A consumer
\* that subscribes childUpdated for a key through a registry name and, at the
\* same time, starts a loop that awaits the next occurrence of the key through
\* the same name and calls childUpdated after each, has had childUpdated
\* called as often by the loop as by the subscription whenever the loop is
\* back at its await and no continuation is queued.
C21_SameEffect ==
    watchdog.pc = "awaiting" /\ microtasks = <<>> => updated.async = updated.sub

\* C22: Firing a key with no subscribers and no pending promises.  On a
\* component that is not finalized, a publication of a key for which the
\* component holds no callback and no promise raises nothing, calls no
\* callback, resolves no promise and queues no continuation, and the
\* component holds for every key the same callbacks and the same pending
\* promises as before.
C22_FireNoObservers ==
    [][op'[1] = "pub"
       => \A c \in Comps, key \in Msgs, args \in Args :
             /\ Fired(c, key, args)
             /\ ~finalized[c]
             /\ Held(subscriptions[c], key) = <<>>
             /\ Held(promises[c], key) = <<>>
             => /\ err' = NoError
                /\ invoked' = <<>>
                /\ UNCHANGED <<waiter, microtasks>>
                /\ \A k \in Msgs :
                      /\ Held(subscriptions'[c], k) = Held(subscriptions[c], k)
                      /\ Held(promises'[c], k) = Held(promises[c], k)]_vars

\* C22 witness: component 1 holds a callback and a pending promise for "n"
\* and nothing for "m", and its publication of "m" has just returned.
C22_Witness ==
    /\ op = <<"pub", 1, "m", 1>>
    /\ err = NoError
    /\ invoked = <<>>
    /\ Held(subscriptions[1], "m") = <<>>
    /\ Subscribed(1, "n", "s")
    /\ RelayedOn(1, 1, "n", 0)
    /\ waiter[1] = [st |-> "pending", val |-> 0, calls |-> 0]

C24_OccupantUsable ==
    \A reg \in Regs, name \in Names :
        slot[reg][name].t = "handle" => ~finalized[slot[reg][name].c]

\* a step in which the write to reg.<name> ran the finalize of the occupant's
\* side to its end: the slot has a new occupant, or the assignment
\* provider.<name> = handle returned (it may store the handle that was there)
Replaced(reg, name) ==
    /\ slot[reg][name].t # "empty"
    /\ \/ slot'[reg][name] # slot[reg][name]
       \/ reg = Global /\ op'[1] = "set" /\ op'[3] = name /\ err' = NoError
\* the callback is in the key's set of component t exactly once
Once(subs, t, key, callback) ==
    Cardinality({i \in 1..Len(Held(subs[t], key)) : subs[t][key][i] = callback}) = 1

\* C25 (1): when finalize has completed on a proxy, the proxy holds no
\* callback and no promise, and every callback it held is subscribed once on
\* the component it was finalized onto (the component of the step's write).
C25_Proxy ==
    [][op'[1] \in {"new", "set"}
       => \A p \in Proxies, t \in Comps :
             /\ Occupant(p) = Proxy
             /\ Replaced(p[1], p[2])
             /\ t = op'[2]
             => /\ ppromises'[p] = EmptyMap
                /\ psubscriptions'[p] = EmptyMap
                /\ \A key \in Msgs, callback \in Callbacks :
                      Buffered(p, key, callback) => Once(subscriptions', t, key, callback)]_vars

\* C25 (2): when finalizeTriggers has completed on a component (the owner of
\* ps for a write to ps, the occupying component for a write to the provider),
\* the component holds no callback and no promise, and every callback it held
\* is subscribed once on the component of the step's write.
C25_Handle ==
    [][op'[1] \in {"new", "set"}
       => \A reg \in Regs, name \in Names, c \in Comps, t \in Comps :
             /\ slot[reg][name].t = "handle"
             /\ c = IF reg = Ps THEN Owner ELSE slot[reg][name].c
             /\ ~finalized[c]
             /\ Replaced(reg, name)
             /\ t = op'[2]
             => /\ finalized'[c]
                /\ promises'[c] = EmptyMap
                /\ subscriptions'[c] = EmptyMap
                /\ \A key \in Msgs, callback \in Callbacks :
                      Subscribed(c, key, callback) => Once(subscriptions', t, key, callback)]_vars

\* C25: Finalize empties the source.  Immediately after finalize completes on
\* a proxy or on a component, that object holds no callback and no pending
\* promise for any key, and every callback it held is subscribed on the target
\* exactly once.
C25_FinalizeEmpties == C25_Proxy /\ C25_Handle

\* C25 witness: provider.child held component 1 itself, with a callback and
\* a pending promise; the write of component 2 has finalized 1 onto 2.
C25_Witness ==
    /\ op = <<"set", 2, "child", "object">>
    /\ err = NoError
    /\ nops = 5
    /\ finalized[1] /\ ~finalized[2]
    /\ promises[1] = EmptyMap /\ subscriptions[1] = EmptyMap
    /\ subscriptions[2] = [k \in {"m"} |-> <<"s">>]
    /\ RelayedOn(1, 2, "m", 1)
    /\ made = {}

\* the last operation called the callback
Ran(callback) == \E i \in 1..Len(invoked) : invoked[i].cb = callback

\* C26 (1): proxy.unsub.<key>(callback) leaves the callback out of the
\* proxy's buffer and every other callback in it.
C26_Unsubscribed ==
    [][op'[1] = "proxy.unsub"
       => \A p \in Proxies, key \in Msgs, callback \in Callbacks :
             ProxyUnsubscribe(p, key, callback)
             => /\ ~Buffered(p, key, callback)'
                /\ \A other \in Callbacks \ {callback} :
                      Buffered(p, key, other)' = Buffered(p, key, other)]_vars

\* C26 (2): a callback gets into a proxy's buffer by proxy.sub only.
C26_StaysOut ==
    [][\/ UNCHANGED psubscriptions
       \/ \A p \in Proxies, key \in Msgs, callback \in Callbacks :
             ~Buffered(p, key, callback) /\ Buffered(p, key, callback)'
             => ProxySubscribe(p, key, callback)]_vars

\* C26 (3): the write that replaces a proxy by a handle subscribes on the
\* handle's component the callbacks the proxy buffers, and no other.
C26_Forwarded ==
    [][op'[1] = "set"
       => \A p \in Proxies, t \in Comps, key \in Msgs, callback \in Callbacks :
             /\ Occupant(p) = Proxy
             /\ Occupant(p)' \in {Handle(t, k) : k \in Kinds}
             => Subscribed(t, key, callback)'
                = (Buffered(p, key, callback) \/ Subscribed(t, key, callback))]_vars

\* C26 (4): a component comes to hold a callback by sub on it, or by the
\* forwarding of a proxy or of a component that holds the callback.
C26_Gained ==
    [][\/ UNCHANGED subscriptions
       \/ \A c \in Comps, key \in Msgs, callback \in Callbacks :
             ~Subscribed(c, key, callback) /\ Subscribed(c, key, callback)'
             => \/ Subscribe(c, key, callback)
                \/ \E p \in Proxies : Occupant(p) = Proxy /\ Buffered(p, key, callback)
                \/ \E d \in Comps \ {c} : Subscribed(d, key, callback)]_vars

\* C26 (5): a publication calls no callback that the component does not hold.
C26_OnlySubscribed ==
    [][op'[1] = "pub"
       => \A c \in Comps, key \in Msgs, args \in Args :
             Fired(c, key, args)
             => \A callback \in Callbacks :
                   ~Subscribed(c, key, callback) => ~Ran(callback)']_vars

\* C26: A callback unsubscribed on the proxy before finalize is not forwarded.
\* proxy.unsub takes the callback out of the buffer and leaves the others; it
\* comes back only by proxy.sub; finalize subscribes on the target exactly the
\* callbacks that are buffered; the target comes to hold a callback only by a
\* sub or by a forwarding from a holder of it; and a publication calls only
\* callbacks that the component holds.
C26_UnsubscribedNotForwarded ==
    C26_Unsubscribed /\ C26_StaysOut /\ C26_Forwarded /\ C26_Gained /\ C26_OnlySubscribed

\* C26 witness: after five operations, the last being provider.child =
\* handle of 1 over a proxy, component 1 holds "t" for "m" and not "s"; nothing
\* else exists (a run to here: read, proxy.sub s, proxy.sub t, proxy.unsub s, set).
C26_Witness ==
    /\ op = <<"set", 1, "child", "object">>
    /\ err = NoError
    /\ nops = 5
    /\ forwarded = {<<Global, "child">>}
    /\ made = {<<Global, "child">>}
    /\ subscriptions[1] = [k \in {"m"} |-> <<"t">>]
    /\ promises[1] = EmptyMap
    /\ \A c \in Comps \ {1} : ~Exists(c)
    /\ \A w \in Waiters : waiter[w].st = "none"

\* a continuation that carries the value for promise w and has `hops` awaits
\* of relays left is queued
Queued(w, hops, value) ==
    \E i \in 1..Len(microtasks) : microtasks[i] = [w |-> w, hops |-> hops, val |-> value]

\* C27 (1): when a component that holds a relay is finalized onto another
\* component that is not finalized, the latter holds a relay of the relay, and
\* the former holds it no more.
C27_SecondHop ==
    [][op'[1] \in {"new", "set"}
       => \A c \in Comps, t \in Comps :
             /\ ~finalized[c] /\ finalized'[c]
             /\ t = op'[2]
             /\ t # c /\ ~finalized[t]
             => \A w \in Waiters, key \in Msgs, hops \in 1..NComp :
                   RelayedOn(w, c, key, hops)
                   => RelayedOn(w, t, key, hops + 1)' /\ ~OnComp(w, c, key)']_vars

\* C27 (2): the continuation of a relay of a relay hands the value on to the
\* relay it wraps, whose continuation is queued.
C27_Hop ==
    [][op'[1] = "microtask"
       => \A w \in Waiters, value \in Args, hops \in 2..(NComp + 1) :
             /\ microtasks # <<>>
             /\ Head(microtasks) = [w |-> w, hops |-> hops, val |-> value]
             /\ RunMicrotask
             => Queued(w, hops - 1, value)' /\ waiter'[w] = waiter[w]]_vars

\* C27 (3): a value handed to a relay of a relay reaches the promise.
C27_Delivered ==
    \A w \in Waiters, value \in Args : Queued(w, 2, value) ~> ResolvedWith(w, value)

\* C27 (4): while a component holds a relay of a pending promise, no step
\* settles the promise.
C27_OnlyRelay ==
    [][\/ UNCHANGED waiter
       \/ \A w \in Waiters, c \in Comps, key \in Msgs, hops \in 1..NComp :
             waiter[w].st = "pending" /\ RelayedOn(w, c, key, hops)
             => waiter'[w] = waiter[w]]_vars

\* C27: Relay chains lose no waiter.  A promise buffered in a proxy that is
\* finalized onto H1 becomes a relay on H1; when H1 is finalized onto H2 (not
\* finalized itself) before H1 publishes the key, the relay becomes a relay of
\* two awaits on H2 and stays there until H2 publishes the key; that
\* publication hands its args to the relay, whose continuations pass them on
\* to the promise, which is resolved with them, once, and by nothing else.
C27_RelayChain ==
    /\ C2_Registered /\ C27_SecondHop /\ RelayKept /\ RelayFired
    /\ C27_Hop /\ C2_Resumed /\ C27_Delivered /\ C27_OnlyRelay /\ ResolvedOnce

\* C27 witness: promise 1 waited in the proxy of provider.child, which was
\* finalized onto component 1 and component 1 onto component 2; 2 has
\* published "m" with 2 and the first of the two continuations has run.
C27_Witness ==
    /\ op = <<"microtask", 1, 2, 2>>
    /\ microtasks = <<[w |-> 1, hops |-> 1, val |-> 2]>>
    /\ waiter[1].st = "pending"
    /\ finalized[1] /\ ~finalized[2]
    /\ <<Global, "child">> \in forwarded
    /\ Occupant(<<Global, "child">>) \in {Handle(2, k) : k \in Kinds}

\* C28: Slots only move forward.  In this.ps and in the provider, no step
\* empties a slot, no step puts a proxy where a handle is, and a proxy
\* appears in a slot only by a read of the slot while it is empty.
C28_SlotsForward ==
    [][\/ UNCHANGED slot
       \/ \A reg \in Regs, name \in Names :
             /\ slot[reg][name].t # "empty" => slot'[reg][name].t # "empty"
             /\ slot[reg][name].t = "handle" => slot'[reg][name].t = "handle"
             /\ slot[reg][name].t # "proxy" /\ slot'[reg][name].t = "proxy"
                => slot[reg][name].t = "empty" /\ Read(reg, name)]_vars

\* C28 witness: provider.child was read while empty, then written with
\* component 1 itself, then with the handle of component 2, which it holds.
C28_Witness ==
    /\ op = <<"set", 2, "child", "object">>
    /\ err = NoError
    /\ <<Global, "child">> \in made
    /\ <<Global, "child">> \in forwarded
    /\ finalized[1]
    /\ Occupant(<<Global, "child">>) = Handle(2, "object")

\* what the occupant of a slot buffers, and whether a forwarding can still
\* take it from there (a finalized component refuses finalizeTriggers)
Buffers(reg, name) ==
    LET occupant == slot[reg][name]
    IN IF occupant.t = "proxy"
       THEN <<ppromises[<<reg, name>>], psubscriptions[<<reg, name>>], FALSE>>
       ELSE IF occupant.t = "handle"
       THEN <<promises[occupant.c], subscriptions[occupant.c], finalized[occupant.c]>>
       ELSE <<EmptyMap, EmptyMap, FALSE>>

\* C29: A failed set changes nothing.  Whenever a write of a handle to a name
\* raises an error (provider.<name> = handle, or the construction of a child
\* with pubsub = [ps, name] or [name, provider]), the slot holds the occupant
\* it held, and the occupant buffers the same callbacks and pending promises
\* and is as open to a later forwarding as before.
C29_FailedSet ==
    [][op'[1] \in {"set", "new"} /\ err' # NoError
       => \A reg \in Regs, name \in Names :
             \/ reg = Global /\ \E c \in Comps, kind \in Kinds : Set(name, c, kind)
             \/ reg = Global /\ Construct(<<N(name), R(Global)>>)
             \/ reg = Ps /\ Construct(<<R(Ps), N(name)>>)
             => /\ slot'[reg][name] = slot[reg][name]
                /\ Buffers(reg, name)' = Buffers(reg, name)]_vars

\* the callbacks that the occupant of provider.<name> holds for the key, in
\* the order of its set
Source(name, key) ==
    IF slot[Global][name].t = "proxy" THEN Held(psubscriptions[<<Global, name>>], key)
    ELSE IF slot[Global][name].t = "handle" THEN Held(subscriptions[slot[Global][name].c], key)
    ELSE <<>>
Pos(seq, x) == CHOOSE i \in 1..Len(seq) : seq[i] = x

\* C30 as claimed: after the finalize of the occupant of provider.<name> onto
\* component t, the forwarded callbacks are in t's set in the order they had
\* on the source, each after every other callback t held before, and a
\* publication calls the callbacks in the order of the set.
C30_SourceOrder ==
    /\ [][op'[1] = "set"
          => \A name \in Names, t \in Comps, key \in Msgs :
                Replaced(Global, name) /\ t = op'[2] /\ t # slot[Global][name].c
                => LET src == Source(name, key)
                       old == Held(subscriptions[t], key)
                       new == Held(subscriptions'[t], key)
                   IN /\ \A i \in 1..Len(src), j \in 1..Len(src) :
                            i < j => Pos(new, src[i]) < Pos(new, src[j])
                      /\ \A i \in 1..Len(src), j \in 1..Len(old) :
                            old[j] # src[i] => Pos(new, old[j]) < Pos(new, src[i])]_vars
    /\ C19_InOrder

\* C30 (1): the finalize of the occupant of provider.<name> onto component t
\* leaves t's set for a key as it was, followed by the source's callbacks that
\* t did not hold, in the order they had on the source.
C30_Appended ==
    [][op'[1] = "set"
       => \A name \in Names, t \in Comps, key \in Msgs :
             Replaced(Global, name) /\ t = op'[2] /\ t # slot[Global][name].c
             => LET src == Source(name, key)
                    old == Held(subscriptions[t], key)
                IN Held(subscriptions'[t], key)
                      = old \o SelectSeq(src, LAMBDA x : x \notin Range(old))]_vars

\* C30 (2): a publication calls the callbacks of the key's set from the
\* first to the last.
C30_Called ==
    [][op'[1] = "pub"
       => \A c \in Comps, key \in Msgs, args \in Args :
             Published(c, key, args)
             => /\ Len(invoked') = Len(Held(subscriptions[c], key))
                /\ \A i \in 1..Len(invoked') : invoked'[i].cb = subscriptions[c][key][i]]_vars

\* C30: Forwarding preserves order.  After finalize(target), the forwarded
\* callbacks that target did not hold yet are called by target's publication
\* in the order in which they were subscribed on the source, after every
\* callback that target held before the finalize; a forwarded callback that
\* target held already keeps the place it had on target.
C30_ForwardOrder == C30_Appended /\ C30_Called

\* C30 witness: the proxy of provider.child buffered "s" then "t", component 1
\* held "t", and provider.child = handle of 1 has left 1 with "t" then "s".
C30_Witness ==
    /\ op = <<"set", 1, "child", "object">>
    /\ err = NoError
    /\ nops = 5
    /\ forwarded = {<<Global, "child">>}
    /\ subscriptions[1] = [k \in {"m"} |-> <<"t", "s">>]
    /\ psubscriptions[<<Global, "child">>] = EmptyMap
    /\ \A c \in Comps \ {1} : ~Exists(c)

\* the maps hold for key k what they held: the same set, or none as before
SameFor(map1, map2, k) == Has(map1, k) = Has(map2, k) /\ Held(map1, k) = Held(map2, k)

\* C31 (1): a publication of a key calls only callbacks subscribed for that
\* key, settles or hands on only promises pending for that key, and leaves
\* the component's callbacks and promises of every other key as they were.
C31_Fire ==
    [][op'[1] = "pub"
       => LET c == op'[2]
              key == op'[3]
          IN Fired(c, key, op'[4])
             => /\ \A callback \in Callbacks :
                      ~Subscribed(c, key, callback) => ~Ran(callback)'
                /\ Len(invoked') <= Len(Held(subscriptions[c], key))
                /\ \A w \in Waiters : ~OnComp(w, c, key) => waiter'[w] = waiter[w]
                /\ \A i \in 1..Len(microtasks') :
                      i > Len(microtasks) => OnComp(microtasks'[i].w, c, key)
                /\ \A k \in Msgs \ {key} :
                      /\ SameFor(subscriptions'[c], subscriptions[c], k)
                      /\ SameFor(promises'[c], promises[c], k)]_vars

\* C31 (2): sub, unsub and async for a key on a component call nothing,
\* settle no promise, and leave the component's callbacks and promises of every
\* other key as they were.
C31_Handle ==
    [][op'[1] \in {"sub", "unsub", "async"}
       => LET c == op'[2]
              key == op'[3]
          IN \/ op'[1] = "sub" /\ Subscribe(c, key, op'[4])
             \/ op'[1] = "unsub" /\ Unsubscribe(c, key, op'[4])
             \/ op'[1] = "async" /\ Wait(c, key)
             => /\ invoked' = <<>>
                /\ UNCHANGED microtasks
                /\ \A w \in Waiters : waiter[w].st # "none" => waiter'[w] = waiter[w]
                /\ \A k \in Msgs \ {key} :
                      /\ SameFor(subscriptions'[c], subscriptions[c], k)
                      /\ SameFor(promises'[c], promises[c], k)]_vars

\* C31 (3): the same for sub, unsub and async on a proxy.
C31_Proxy ==
    [][op'[1] \in {"proxy.sub", "proxy.unsub", "proxy.async"}
       => LET p == op'[2]
              key == op'[3]
          IN \/ op'[1] = "proxy.sub" /\ ProxySubscribe(p, key, op'[4])
             \/ op'[1] = "proxy.unsub" /\ ProxyUnsubscribe(p, key, op'[4])
             \/ op'[1] = "proxy.async" /\ ProxyWait(p, key)
             => /\ invoked' = <<>>
                /\ UNCHANGED microtasks
                /\ \A w \in Waiters : waiter[w].st # "none" => waiter'[w] = waiter[w]
                /\ \A k \in Msgs \ {key} :
                      /\ SameFor(psubscriptions'[p], psubscriptions[p], k)
                      /\ SameFor(ppromises'[p], ppromises[p], k)]_vars

\* C31: Message names are isolated.  A publication of a key calls no callback
\* subscribed only for another key, resolves no promise pending for another
\* key, and leaves the callbacks and pending promises of every other key
\* unchanged; so do sub, unsub and async for a key, on a component and on
\* a proxy.
C31_NamesIsolated == C31_Fire /\ C31_Handle /\ C31_Proxy

\* C31 witness: component 1 held "s" and promise 1 for "n" and promise 2
\* for "m"; its publication of "m" with 1 has resolved promise 2, called
\* nothing, and left "s" and promise 1 where they were.
C31_Witness ==
    /\ op = <<"pub", 1, "m", 1>>
    /\ err = NoError
    /\ invoked = <<>>
    /\ ResolvedWith(2, 1)
    /\ waiter[1] = [st |-> "pending", val |-> 0, calls |-> 0]
    /\ RelayedOn(1, 1, "n", 0)
    /\ subscriptions[1] = [k \in {"m", "n"} |-> IF k = "n" THEN <<"s">> ELSE <<>>]

\* C32: No empty callback sets are retained.  In every reachable state, every
\* key present in the subscriptions map of a component or of a proxy has at
\* least one callback.
C32_NoEmptySets ==
    /\ \A c \in Comps : \A key \in DOMAIN subscriptions[c] : subscriptions[c][key] # <<>>
    /\ \A p \in Proxies : \A key \in DOMAIN psubscriptions[p] : psubscriptions[p][key] # <<>>

====
